---------------------------- MODULE Spec2Model ----------------------------
(***************************************************************************)
(* A model of pylgbst/comms/cbleak.py: the BleakDriver facade with its two *)
(* threads per enable_notifications() call (the connection unit running    *)
(* _bleak_thread on a BleakConnection, and the dispatch unit running       *)
(* _processing), the two module-level queues they share, and the connect   *)
(* algorithms of BleakConnection and BleakConnection2.                     *)
(*                                                                         *)
(* The BLE library (bleak: discover, BleakClient) is the environment: each *)
(* awaited call is a step of the awaiting thread whose outcome (a result   *)
(* or an exception) is chosen nondeterministically.                        *)
(***************************************************************************)
EXTENDS Integers, Sequences, FiniteSets, TLC

(***************************************************************************)
(* Bounds of the model.                                                    *)
(***************************************************************************)
\* enable_notifications() calls over all drivers (each starts one unit pair)
MaxUnits == 2
\* BleakDriver.write calls that enqueue
MaxWrites == 2
\* notifications the transports deliver to their callbacks
MaxNotifs == 2
\* devices in one discovery scan
MaxScanLen == 2

(***************************************************************************)
(* Values.  None is the empty tuple, so that it compares with addresses,   *)
(* names and queue items, which are tuples.                                *)
(***************************************************************************)
None == <<>>

\* An address is <<n, c>>: n identifies the string up to letter case, c is
\* its casing.  str.lower() maps both casings to the lower-case one.
Lower(a) == IF a = None THEN None ELSE <<a[1], "lc">>

\* A name is a string over a two-letter alphabet; None/empty is <<>>.
Device(a, n) == [address |-> a, name |-> n]

\* The devices a scan can report.
Devices ==
    { Device(<<1, "uc">>, <<1, 2>>), Device(<<1, "lc">>, <<>>),
      Device(<<2, "uc">>, <<1>>),    Device(<<3, "uc">>, <<2>>) }

\* The targets (hub_mac, hub_name) a connect can be given.
Targets == {None, <<1, "lc">>, <<2, "lc">>} \X {None, <<1>>, <<2>>}

NoDevice == Device(None, None)

RECURSIVE SeqsUpTo(_, _)
SeqsUpTo(S, n) ==
    IF n = 0 THEN {<<>>}
    ELSE LET shorter == SeqsUpTo(S, n - 1)
         IN  shorter \cup {Append(s, x) : s \in {q \in shorter : Len(q) = n - 1}, x \in S}

\* The results discover() can return: device lists in discovery order.
Scans == SeqsUpTo(Devices, MaxScanLen)

\* The scans around the driver of Spec: its hub is absent or seen second.
DriverScans == { <<Device(<<1, "uc">>, <<1, 2>>)>>,
                 <<Device(<<1, "uc">>, <<1, 2>>), Device(<<2, "uc">>, <<1>>)>> }

IsSubstring(s, n) ==
    \E i \in 1..(Len(n) - Len(s) + 1) : SubSeq(n, i, i + Len(s) - 1) = s

\* Connection._is_device_matched(address, name, hub_mac, hub_name)
is_device_matched(address, name, hub_mac, hub_name) ==
    IF hub_mac # None
    THEN Lower(address) = Lower(hub_mac)
    ELSE IF hub_name # None
         THEN name # None /\ IsSubstring(hub_name, name)
         ELSE TRUE

\* A for loop without its break: the last matching device wins.
ForLoopLastIndex(devices, hub_mac, hub_name) ==
    LET hits == {i \in 1..Len(devices) :
                    is_device_matched(devices[i].address, devices[i].name,
                                      hub_mac, hub_name)}
    IN  IF hits = {} THEN 0
        ELSE CHOOSE i \in hits : \A j \in hits : i >= j

\* for dev in devices: if matched: <device> = dev; break      (else: no break)
\* The index of the device the for loop breaks on, 0 when it runs to its else.
ForLoopBreakIndex(devices, hub_mac, hub_name) ==
    LET hits == {i \in 1..Len(devices) :
                    is_device_matched(devices[i].address, devices[i].name,
                                      hub_mac, hub_name)}
    IN  IF hits = {} THEN 0
        ELSE CHOOSE i \in hits : \A j \in hits : i <= j

\* for i in range(0, 30): the scans BleakConnection2.connect makes at most
MaxAttempts == 30

\* An outer loop that gives up after its first scan.
Connect2LoopExitOnce(i, idx) ==
    IF idx # 0 THEN "break" ELSE "raise"

\* How one pass of BleakConnection2.connect's outer loop ends, i being its
\* index and idx the inner loop's break index: "break" on a match,
\* "continue" to the next scan, "raise" when the range is used up.
Connect2LoopExit(i, idx) ==
    IF idx # 0 THEN "break"
    ELSE IF i + 1 < MaxAttempts THEN "continue" ELSE "raise"

\* A selection that falls back to the first device seen when none matches.
ConnectSelectFirstSeen(devices, hub_mac, hub_name) ==
    LET i == ForLoopBreakIndex(devices, hub_mac, hub_name)
    IN  IF i # 0 THEN devices[i]
        ELSE IF devices = <<>> THEN NoDevice ELSE devices[1]

\* The device BleakConnection.connect assigns to self._device from one scan,
\* NoDevice when it raises ConnectionError('Device not found.').
ConnectSelect(devices, hub_mac, hub_name) ==
    LET i == ForLoopBreakIndex(devices, hub_mac, hub_name)
    IN  IF i = 0 THEN NoDevice ELSE devices[i]


(***************************************************************************)
(* The transport's constants and the GATT table of the hub.                *)
(***************************************************************************)
\* pylgbst.comms.MOVE_HUB_HW_UUID_CHAR
MOVE_HUB_HW_UUID_CHAR == "00001624-1212-efde-1623-785feabcd123"

\* bytearray([0x05, 0x00, 0x01, 0x01, 0x05])
KeepAliveData == <<5, 0, 1, 1, 5>>

\* The handles callers write to: 14 (0x0e) has no descriptor, 15 has one.
Handles == {14, 15}

\* self._client.services.get_descriptor(handle): <<characteristic_uuid>>, or None
get_descriptor(handle) == IF handle = 15 THEN <<"char-of-descriptor-15">> ELSE None

(***************************************************************************)
(* State.                                                                  *)
(***************************************************************************)
AllDrivers == {"A", "B"}
Units == 1..MaxUnits

VARIABLES
    req_queue,          \* module-level req_queue: items <<handle, data>>
    resp_queue,         \* module-level resp_queue: items <<sender, data>>
    handler,            \* BleakDriver._handler: None, or <<d>> for d's handler
    abort,              \* BleakDriver._abort
    connection_thread,  \* BleakDriver._connection_thread: 0 is None, else a unit
    processing_thread,  \* BleakDriver._processing_thread: 0 is None, else a unit
    conn,               \* the threads running _bleak_thread, one per unit
    proc,               \* the threads running _processing, one per unit
    transport,          \* per unit: the BLE side of its BleakConnection
    hlog,               \* per driver: the invocations its handler has seen
    write_res,          \* per driver: how its latest write() call ended
    n_writes,           \* write() calls that enqueued so far
    n_notifs,           \* notifications delivered to callbacks so far
    hub_mac,            \* BleakDriver.hub_mac
    hub_name,           \* BleakDriver.hub_name
    scans,              \* the environment: the results discover() can give
    bc2                 \* a BleakConnection2

vars == <<req_queue, resp_queue, handler, abort, connection_thread,
          processing_thread, conn, proc, transport, hlog, write_res,
          n_writes, n_notifs, hub_mac, hub_name, scans, bc2>>

NoThread == [owner |-> "-", pc |-> "none", devices |-> <<>>,
             device |-> NoDevice, data |-> None, err |-> "none"]
NoTransport == [linked |-> FALSE, subscribed |-> FALSE, inflight |-> 0,
                log |-> <<>>]

\* One call of the BLE library: what was called, with what, and by which
\* kind of thread ("conn": a connection unit, "caller": a public API call,
\* "dispatch": a dispatch unit).
Call(op, arg, by) == [op |-> op, arg |-> arg, by |-> by]

\* threading.Thread.is_alive()
ThreadAlive(th) == th.pc \notin {"none", "done", "dead"}

\* Units started so far.
Started == {t \in Units : conn[t].pc # "none"}

NoProc == [owner |-> "-", pc |-> "none", msg |-> None]

\* A resolution that ignores the descriptors.
WriteCharacteristicDefaultOnly(handle) == MOVE_HUB_HW_UUID_CHAR

\* The characteristic BleakConnection.write sends to for a handle.
WriteCharacteristic(handle) ==
    LET desc == get_descriptor(handle)
    IN  IF desc = None THEN MOVE_HUB_HW_UUID_CHAR ELSE desc[1]

\* transport with one more library call recorded for unit t
Logged(t, c) == [transport EXCEPT ![t].log = Append(@, c)]

(***************************************************************************)
(* BleakDriver: the public calls, each made on a caller thread.            *)
(***************************************************************************)
\* BleakDriver.set_notify_handler(handler)
set_notify_handler(d) ==
    /\ handler' = [handler EXCEPT ![d] = <<d>>]
    /\ UNCHANGED <<req_queue, resp_queue, abort, connection_thread,
                   processing_thread, conn, proc, transport, hlog, write_res,
                   n_writes, n_notifs, hub_mac, hub_name, scans, bc2>>

\* BleakDriver.enable_notifications(): creates and starts both threads.  The
\* new connection thread constructs its BleakConnection and awaits discover().
enable_notifications(d) ==
    /\ Cardinality(Started) < MaxUnits
    /\ LET t == Cardinality(Started) + 1
       IN  /\ conn' = [conn EXCEPT ![t] = [NoThread EXCEPT !.owner = d,
                                                          !.pc = "discover"]]
           /\ proc' = [proc EXCEPT ![t] = [NoProc EXCEPT !.owner = d,
                                                        !.pc = "loop"]]
           /\ transport' = Logged(t, Call("discover", None, "conn"))
           /\ connection_thread' = [connection_thread EXCEPT ![d] = t]
           /\ processing_thread' = [processing_thread EXCEPT ![d] = t]
    /\ UNCHANGED <<req_queue, resp_queue, handler, abort, hlog, write_res,
                   n_writes, n_notifs, hub_mac, hub_name, scans, bc2>>

\* How BleakDriver.write ends in the current state: None has no is_alive().
WriteOutcome(d) ==
    IF connection_thread[d] = 0
    THEN "AttributeError"
    ELSE IF \/ ~ThreadAlive(conn[connection_thread[d]])
            \/ ~ThreadAlive(proc[processing_thread[d]])
         THEN "ConnectionError"
         ELSE "ok"

\* BleakDriver.write(handle, data); data is the n-th payload, <<n>>.
write(d, handle) ==
    /\ n_writes < MaxWrites
    /\ write_res' = [write_res EXCEPT ![d] = WriteOutcome(d)]
    /\ IF WriteOutcome(d) = "ok"
       THEN /\ req_queue' = Append(req_queue, <<handle, <<n_writes + 1>> >>)
            /\ n_writes' = n_writes + 1
       ELSE UNCHANGED <<req_queue, n_writes>>
    /\ UNCHANGED <<resp_queue, handler, abort, connection_thread,
                   processing_thread, conn, proc, transport, hlog, n_notifs,
                   hub_mac, hub_name, scans, bc2>>

\* BleakDriver.disconnect()
disconnect(d) ==
    /\ abort' = [abort EXCEPT ![d] = TRUE]
    /\ UNCHANGED <<req_queue, resp_queue, handler, connection_thread,
                   processing_thread, conn, proc, transport, hlog, write_res,
                   n_writes, n_notifs, hub_mac, hub_name, scans, bc2>>

\* BleakDriver.is_alive()
is_alive(d) ==
    IF connection_thread[d] # 0 /\ processing_thread[d] # 0
    THEN /\ ThreadAlive(conn[connection_thread[d]])
         /\ ThreadAlive(proc[processing_thread[d]])
    ELSE FALSE

(***************************************************************************)
(* BleakDriver._bleak_thread: the connection unit t.  Its pc names the     *)
(* call it is suspended in: "discover", "connect", "subscribe"             *)
(* (start_notify), "keepalive" (write_char), "sleep" (asyncio.sleep),      *)
(* "get" (req_queue.get), "write" (bleak.write); "loop" is the test of the *)
(* while condition; "done" is a normal return, "dead" an exception.        *)
(***************************************************************************)
Raise(t, e) == [conn EXCEPT ![t].pc = "dead", ![t].err = e]

\* A unit that enters its drain loop as soon as it has picked a device,
\* with the client's connect() started but not awaited and no subscription.
bleak_connect_discovered_then_drain(t) ==
    /\ conn[t].pc = "discover"
    /\ \E devices \in scans :
         LET d   == conn[t].owner
             dev == ConnectSelect(devices, hub_mac[d], hub_name[d])
         IN  IF dev = NoDevice
             THEN /\ conn' = [Raise(t, "DeviceNotFound") EXCEPT
                                 ![t].devices = devices]
                  /\ UNCHANGED transport
             ELSE /\ conn' = [conn EXCEPT ![t].pc = "loop",
                                          ![t].device = dev]
                  /\ transport' = Logged(t, Call("connect", dev.address, "conn"))
    /\ UNCHANGED <<req_queue, resp_queue, handler, abort, connection_thread,
                   processing_thread, proc, hlog, write_res, n_writes,
                   n_notifs, hub_mac, hub_name, scans, bc2>>

\* bleak.connect: discover() returns; the for loop picks the device; on a
\* match BleakClient(address) is created and its connect() awaited.
bleak_connect_discovered(t) ==
    /\ conn[t].pc = "discover"
    /\ \E devices \in scans :
         LET d   == conn[t].owner
             dev == ConnectSelect(devices, hub_mac[d], hub_name[d])
         IN  IF dev = NoDevice
             THEN /\ conn' = [Raise(t, "DeviceNotFound") EXCEPT
                                 ![t].devices = devices]
                  /\ UNCHANGED transport
             ELSE /\ conn' = [conn EXCEPT ![t].pc = "connect",
                                          ![t].devices = devices,
                                          ![t].device = dev]
                  /\ transport' = Logged(t, Call("connect", dev.address, "conn"))
    /\ UNCHANGED <<req_queue, resp_queue, handler, abort, connection_thread,
                   processing_thread, proc, hlog, write_res, n_writes,
                   n_notifs, hub_mac, hub_name, scans, bc2>>

\* self._client.connect() returns a status (only logged) or raises, and
\* bleak.connect returns (its local devices is gone); then
\* bleak.set_notify_handler awaits start_notify.
bleak_connect_returns(t) ==
    /\ conn[t].pc = "connect"
    /\ \E outcome \in {"connected", "not connected", "raise"} :
         IF outcome = "raise"
         THEN /\ conn' = [Raise(t, "ConnectError") EXCEPT ![t].devices = <<>>]
              /\ UNCHANGED transport
         ELSE /\ conn' = [conn EXCEPT ![t].pc = "subscribe",
                                      ![t].devices = <<>>]
              /\ transport' =
                   [transport EXCEPT
                      ![t].linked = (outcome = "connected"),
                      ![t].log = Append(@, Call("start_notify",
                                                MOVE_HUB_HW_UUID_CHAR, "conn"))]
    /\ UNCHANGED <<req_queue, resp_queue, handler, abort, connection_thread,
                   processing_thread, proc, hlog, write_res, n_writes,
                   n_notifs, hub_mac, hub_name, scans, bc2>>

\* A unit that goes from its subscription straight to its drain loop.
bleak_subscribe_returns_no_keepalive(t) ==
    /\ conn[t].pc = "subscribe"
    /\ \E ok \in {b \in BOOLEAN : b => transport[t].linked} :
         IF ok
         THEN /\ conn' = [conn EXCEPT ![t].pc = "loop"]
              /\ transport' = [transport EXCEPT ![t].subscribed = TRUE]
         ELSE /\ conn' = Raise(t, "SubscribeError")
              /\ UNCHANGED transport
    /\ UNCHANGED <<req_queue, resp_queue, handler, abort, connection_thread,
                   processing_thread, proc, hlog, write_res, n_writes,
                   n_notifs, hub_mac, hub_name, scans, bc2>>

\* start_notify returns (it can succeed only on a connected client) or
\* raises; then the keep-alive write_char is awaited.
bleak_subscribe_returns(t) ==
    /\ conn[t].pc = "subscribe"
    /\ \E ok \in {b \in BOOLEAN : b => transport[t].linked} :
         IF ok
         THEN /\ conn' = [conn EXCEPT ![t].pc = "keepalive"]
              /\ transport' =
                   [transport EXCEPT
                      ![t].subscribed = TRUE,
                      ![t].inflight = @ + 1,
                      ![t].log = Append(@, Call("write_gatt_char",
                                   <<MOVE_HUB_HW_UUID_CHAR, KeepAliveData>>,
                                   "conn"))]
         ELSE /\ conn' = Raise(t, "SubscribeError")
              /\ UNCHANGED transport
    /\ UNCHANGED <<req_queue, resp_queue, handler, abort, connection_thread,
                   processing_thread, proc, hlog, write_res, n_writes,
                   n_notifs, hub_mac, hub_name, scans, bc2>>

\* The keep-alive write_gatt_char returns (only over a live link) or raises.
bleak_keepalive_returns(t) ==
    /\ conn[t].pc = "keepalive"
    /\ \E ok \in {b \in BOOLEAN : b => transport[t].linked} :
         conn' = IF ok THEN [conn EXCEPT ![t].pc = "loop"]
                       ELSE Raise(t, "KeepaliveError")
    /\ transport' = [transport EXCEPT ![t].inflight = @ - 1]
    /\ UNCHANGED <<req_queue, resp_queue, handler, abort, connection_thread,
                   processing_thread, proc, hlog, write_res, n_writes,
                   n_notifs, hub_mac, hub_name, scans, bc2>>

\* while not self._abort:  then  await asyncio.sleep(0.1)
bleak_loop_test(t) ==
    /\ conn[t].pc = "loop"
    /\ conn' = [conn EXCEPT ![t].pc =
                  IF abort[conn[t].owner] THEN "done" ELSE "sleep"]
    /\ UNCHANGED <<req_queue, resp_queue, handler, abort, connection_thread,
                   processing_thread, proc, transport, hlog, write_res,
                   n_writes, n_notifs, hub_mac, hub_name, scans, bc2>>

\* asyncio.sleep returns:  if req_queue.qsize() != 0:
bleak_poll(t) ==
    /\ conn[t].pc = "sleep"
    /\ conn' = [conn EXCEPT ![t].pc =
                  IF Len(req_queue) # 0 THEN "get" ELSE "loop"]
    /\ UNCHANGED <<req_queue, resp_queue, handler, abort, connection_thread,
                   processing_thread, proc, transport, hlog, write_res,
                   n_writes, n_notifs, hub_mac, hub_name, scans, bc2>>

\* A drain step that starts bleak.write without awaiting it (as a task):
\* the loop goes on while the write is in flight.
bleak_get_and_write_not_awaited(t) ==
    /\ conn[t].pc = "get"
    /\ req_queue # <<>>
    /\ LET data == Head(req_queue)
       IN  /\ conn' = [conn EXCEPT ![t].pc = "loop"]
           /\ transport' =
                [transport EXCEPT
                   ![t].inflight = @ + 1,
                   ![t].log = Append(@, Call("write_gatt_char",
                                <<WriteCharacteristic(data[1]), data[2]>>,
                                "conn"))]
    /\ req_queue' = Tail(req_queue)
    /\ UNCHANGED <<resp_queue, handler, abort, connection_thread,
                   processing_thread, proc, hlog, write_res, n_writes,
                   n_notifs, hub_mac, hub_name, scans, bc2>>

\* data = req_queue.get() (blocks while the queue is empty), then
\* bleak.write(data[0], data[1]) awaits write_gatt_char.
bleak_get_and_write(t) ==
    /\ conn[t].pc = "get"
    /\ req_queue # <<>>
    /\ LET data == Head(req_queue)
       IN  /\ conn' = [conn EXCEPT ![t].pc = "write", ![t].data = data]
           /\ transport' =
                [transport EXCEPT
                   ![t].inflight = @ + 1,
                   ![t].log = Append(@, Call("write_gatt_char",
                                <<WriteCharacteristic(data[1]), data[2]>>,
                                "conn"))]
    /\ req_queue' = Tail(req_queue)
    /\ UNCHANGED <<resp_queue, handler, abort, connection_thread,
                   processing_thread, proc, hlog, write_res, n_writes,
                   n_notifs, hub_mac, hub_name, scans, bc2>>

\* The write_gatt_char of bleak.write returns (only over a live link) or
\* raises.
bleak_write_returns(t) ==
    /\ conn[t].pc = "write"
    /\ \E ok \in {b \in BOOLEAN : b => transport[t].linked} :
         conn' = IF ok THEN [conn EXCEPT ![t].pc = "loop", ![t].data = None]
                       ELSE Raise(t, "WriteError")
    /\ transport' = [transport EXCEPT ![t].inflight = @ - 1]
    /\ UNCHANGED <<req_queue, resp_queue, handler, abort, connection_thread,
                   processing_thread, proc, hlog, write_res, n_writes,
                   n_notifs, hub_mac, hub_name, scans, bc2>>

\* The subscribed client delivers a notification: callback c calls
\* BleakDriver._safe_handler, which puts it into resp_queue.  Callbacks run
\* in the unit's event loop, so only while its coroutine is suspended in an
\* await, and a notification needs the link.  The n-th notification carries
\* the payload <<n>>.
safe_handler(t) ==
    /\ transport[t].subscribed
    /\ transport[t].linked
    /\ conn[t].pc \in {"keepalive", "sleep", "write"}
    /\ n_notifs < MaxNotifs
    /\ resp_queue' = Append(resp_queue, <<MOVE_HUB_HW_UUID_CHAR, <<n_notifs + 1>> >>)
    /\ n_notifs' = n_notifs + 1
    /\ UNCHANGED <<req_queue, handler, abort, connection_thread,
                   processing_thread, conn, proc, transport, hlog, write_res,
                   n_writes, hub_mac, hub_name, scans, bc2>>

\* The hub goes away: the link of unit t's client is lost for good, and
\* every later call on the client fails.  (Of no effect once the unit's
\* thread has ended: nothing uses the client any more.)
link_lost(t) ==
    /\ transport[t].linked
    /\ ThreadAlive(conn[t])
    /\ transport' = [transport EXCEPT ![t].linked = FALSE]
    /\ UNCHANGED <<req_queue, resp_queue, handler, abort, connection_thread,
                   processing_thread, conn, proc, hlog, write_res, n_writes,
                   n_notifs, hub_mac, hub_name, scans, bc2>>

(***************************************************************************)
(* BleakDriver._processing: the dispatch unit t.  pc "loop" is the test of *)
(* the while condition (after time.sleep), "poll" the qsize test, "get"    *)
(* the resp_queue.get() call, "call" the point between get() returning and *)
(* the handler being called, "handler" a handler invocation in progress.   *)
(***************************************************************************)
\* while not self._abort:
processing_loop_test(t) ==
    /\ proc[t].pc = "loop"
    /\ proc' = [proc EXCEPT ![t].pc =
                  IF abort[proc[t].owner] THEN "done" ELSE "poll"]
    /\ UNCHANGED <<req_queue, resp_queue, handler, abort, connection_thread,
                   processing_thread, conn, transport, hlog, write_res,
                   n_writes, n_notifs, hub_mac, hub_name, scans, bc2>>

\* if resp_queue.qsize() != 0:   (else: time.sleep(0.01) and loop)
processing_poll(t) ==
    /\ proc[t].pc = "poll"
    /\ proc' = [proc EXCEPT ![t].pc =
                  IF Len(resp_queue) # 0 THEN "get" ELSE "loop"]
    /\ UNCHANGED <<req_queue, resp_queue, handler, abort, connection_thread,
                   processing_thread, conn, transport, hlog, write_res,
                   n_writes, n_notifs, hub_mac, hub_name, scans, bc2>>

\* msg = resp_queue.get() (blocks while the queue is empty)
processing_get(t) ==
    /\ proc[t].pc = "get"
    /\ resp_queue # <<>>
    /\ proc' = [proc EXCEPT ![t].pc = "call", ![t].msg = Head(resp_queue)]
    /\ resp_queue' = Tail(resp_queue)
    /\ UNCHANGED <<req_queue, handler, abort, connection_thread,
                   processing_thread, conn, transport, hlog, write_res,
                   n_writes, n_notifs, hub_mac, hub_name, scans, bc2>>

\* self._handler(msg[0], msg[1]) is called: calling None raises TypeError.
processing_call(t) ==
    /\ proc[t].pc = "call"
    /\ LET d == proc[t].owner
       IN  IF handler[d] = None
           THEN /\ proc' = [proc EXCEPT ![t].pc = "dead"]
                /\ UNCHANGED hlog
           ELSE /\ proc' = [proc EXCEPT ![t].pc = "handler"]
                /\ hlog' = [hlog EXCEPT ![handler[d][1]] =
                              Append(@, [msg |-> proc[t].msg, by |-> "dispatch"])]
    /\ UNCHANGED <<req_queue, resp_queue, handler, abort, connection_thread,
                   processing_thread, conn, transport, write_res, n_writes,
                   n_notifs, hub_mac, hub_name, scans, bc2>>

\* The handler returns; time.sleep(0.01).
processing_handler_returns(t) ==
    /\ proc[t].pc = "handler"
    /\ proc' = [proc EXCEPT ![t].pc = "loop", ![t].msg = None]
    /\ UNCHANGED <<req_queue, resp_queue, handler, abort, connection_thread,
                   processing_thread, conn, transport, hlog, write_res,
                   n_writes, n_notifs, hub_mac, hub_name, scans, bc2>>

(***************************************************************************)
(* The driver's specification: one BleakDriver, "A", after __init__.       *)
(***************************************************************************)
Bc2Idle == [pc |-> "idle", hub_mac |-> None, hub_name |-> None, i |-> 0,
            devices |-> <<>>, device |-> NoDevice, linked |-> FALSE,
            err |-> "none", passed_match |-> FALSE, log |-> <<>>,
            abort |-> FALSE, back |-> "idle", res |-> "none",
            notify_queue |-> <<>>, thread |-> "none", handled |-> <<>>]

DriverInit ==
    /\ req_queue = <<>>
    /\ resp_queue = <<>>
    /\ handler = [d \in AllDrivers |-> None]
    /\ abort = [d \in AllDrivers |-> FALSE]
    /\ connection_thread = [d \in AllDrivers |-> 0]
    /\ processing_thread = [d \in AllDrivers |-> 0]
    /\ conn = [t \in Units |-> NoThread]
    /\ proc = [t \in Units |-> NoProc]
    /\ transport = [t \in Units |-> NoTransport]
    /\ hlog = [d \in AllDrivers |-> <<>>]
    /\ write_res = [d \in AllDrivers |-> "none"]
    /\ n_writes = 0
    /\ n_notifs = 0

Init ==
    /\ DriverInit
    /\ hub_mac  = [d \in AllDrivers |-> IF d = "A" THEN <<2, "lc">> ELSE None]
    /\ hub_name = [d \in AllDrivers |-> IF d = "A" THEN None ELSE <<2>>]
    /\ scans = DriverScans
    /\ bc2 = Bc2Idle

Api(d) ==
    \/ set_notify_handler(d)
    \/ enable_notifications(d)
    \/ \E handle \in Handles : write(d, handle)
    \/ disconnect(d)

\* The steps of the coroutine _bleak_thread of unit t.
bleak_thread(t) ==
    \/ bleak_connect_discovered(t)
    \/ bleak_connect_returns(t)
    \/ bleak_subscribe_returns(t)
    \/ bleak_keepalive_returns(t)
    \/ bleak_loop_test(t)
    \/ bleak_poll(t)
    \/ bleak_get_and_write(t)
    \/ bleak_write_returns(t)

ConnectionUnit(t) ==
    \/ bleak_thread(t)
    \/ safe_handler(t)

DispatchUnit(t) ==
    \/ processing_loop_test(t)
    \/ processing_poll(t)
    \/ processing_get(t)
    \/ processing_call(t)
    \/ processing_handler_returns(t)

Next ==
    \/ Api("A")
    \/ \E t \in Units : ConnectionUnit(t)
    \/ \E t \in Units : DispatchUnit(t)

Spec == Init /\ [][Next]_vars

\* The scheduling the threads run under: a thread that can take its next
\* step eventually takes it (the OS schedules every runnable thread, and an
\* awaited library call or a handler invocation eventually returns or
\* raises).  Callers and the hub are obliged to nothing: no public call
\* and no notification ever has to happen.
Fairness ==
    \A t \in Units : WF_vars(bleak_thread(t)) /\ WF_vars(DispatchUnit(t))

FairSpec == Init /\ [][Next]_vars /\ Fairness

(***************************************************************************)
(* BleakConnection2.connect, a blocking call on the caller's thread: each  *)
(* run_until_complete is a step.  bc2.i is the outer loop's index,         *)
(* bc2.devices the scan the loops ended on (a scan that is followed by     *)
(* another is not kept: devices is assigned anew before it is read),       *)
(* bc2.log the library calls made; bc2.passed_match records that a scan    *)
(* holding a match was passed over.                                        *)
(***************************************************************************)
driver_vars == <<req_queue, resp_queue, handler, abort, connection_thread,
                 processing_thread, conn, proc, transport, hlog, write_res,
                 n_writes, n_notifs, hub_mac, hub_name>>

\* connect(hub_mac, hub_name) is called and awaits the first discover().
BleakConnection2_connect(mac, name) ==
    /\ bc2.pc = "idle"
    /\ bc2' = [bc2 EXCEPT !.pc = "discover", !.hub_mac = mac,
                          !.hub_name = name, !.i = 0,
                          !.log = Append(@, Call("discover", None, "caller"))]
    /\ UNCHANGED <<driver_vars, scans>>

\* discover() returns: the inner for loop, then the outer loop's exit.
BleakConnection2_connect_discovered ==
    /\ bc2.pc = "discover"
    /\ \E devices \in scans :
         LET idx  == ForLoopBreakIndex(devices, bc2.hub_mac, bc2.hub_name)
             exit == Connect2LoopExit(bc2.i, idx)
         IN  bc2' =
               IF exit = "break"
               THEN [bc2 EXCEPT !.pc = "connect", !.devices = devices,
                                !.device = devices[idx],
                                !.log = Append(@, Call("connect",
                                           devices[idx].address, "caller"))]
               ELSE IF exit = "continue"
               THEN [bc2 EXCEPT !.i = @ + 1,
                                !.passed_match = @ \/ idx # 0,
                                !.log = Append(@, Call("discover", None,
                                                       "caller"))]
               ELSE [bc2 EXCEPT !.pc = "error", !.err = "DeviceNotFound",
                                !.devices = devices,
                                !.passed_match = @ \/ idx # 0]
    /\ UNCHANGED <<driver_vars, scans>>

\* self._client.connect() returns a status (only logged) or raises; then
\* start_notify(MOVE_HUB_HW_UUID_CHAR, enqueue) is awaited.
BleakConnection2_connect_returns ==
    /\ bc2.pc = "connect"
    /\ \E outcome \in {"connected", "not connected", "raise"} :
         bc2' = IF outcome = "raise"
                THEN [bc2 EXCEPT !.pc = "error", !.err = "ConnectError"]
                ELSE [bc2 EXCEPT !.pc = "subscribe",
                                 !.linked = (outcome = "connected"),
                                 !.log = Append(@, Call("start_notify",
                                            MOVE_HUB_HW_UUID_CHAR, "caller"))]
    /\ UNCHANGED <<driver_vars, scans>>

\* start_notify returns (only on a connected client) or raises; connect
\* returns self.
BleakConnection2_subscribe_returns ==
    /\ bc2.pc = "subscribe"
    /\ \E ok \in {b \in BOOLEAN : b => bc2.linked} :
         bc2' = IF ok THEN [bc2 EXCEPT !.pc = "connected"]
                      ELSE [bc2 EXCEPT !.pc = "error", !.err = "SubscribeError"]
    /\ UNCHANGED <<driver_vars, scans>>

(***************************************************************************)
(* BleakConnection2 after connect.  Its public calls are blocking calls    *)
(* made one at a time on the caller's thread; bc2.pc is that thread's      *)
(* position: at rest ("idle", "error" after a connect that raised,         *)
(* "connected" after one that returned) or inside a run_until_complete     *)
(* ("write", "is_alive", "disconnect"), bc2.back being the rest position   *)
(* the call was made from and bc2.res how the latest call ended.           *)
(* self._client is None as long as bc2.device is NoDevice.  bc2.thread is  *)
(* the position of the thread set_notify_handler starts, bc2.handled the   *)
(* invocations of the handler.                                             *)
(***************************************************************************)
bc2_rest_vars == <<req_queue, resp_queue, handler, abort, connection_thread,
                   processing_thread, conn, proc, transport, hlog, write_res,
                   hub_mac, hub_name, scans>>

\* The caller's thread is between two calls.
Bc2AtRest == bc2.pc \in {"idle", "error", "connected"}

\* BleakConnection2.write(handle, data): self._client.services raises
\* AttributeError on None; else the descriptor is looked up and
\* write_gatt_char is run to completion.  Writes are made before connect
\* (no client) or after a connect that returned.
BleakConnection2_write(handle) ==
    /\ Bc2AtRest
    /\ bc2.device = NoDevice \/ bc2.pc = "connected"
    /\ n_writes < MaxWrites
    /\ IF bc2.device = NoDevice
       THEN /\ bc2' = [bc2 EXCEPT !.res = "AttributeError"]
            /\ UNCHANGED n_writes
       ELSE /\ bc2' = [bc2 EXCEPT
                         !.pc = "write", !.back = bc2.pc, !.res = "none",
                         !.log = Append(@, Call("write_gatt_char",
                                    <<WriteCharacteristic(handle),
                                      <<n_writes + 1>> >>, "caller"))]
            /\ n_writes' = n_writes + 1
    /\ UNCHANGED <<bc2_rest_vars, n_notifs>>

\* write_gatt_char returns (only over a live link) or raises to the caller.
BleakConnection2_write_returns ==
    /\ bc2.pc = "write"
    /\ \E ok \in {b \in BOOLEAN : b => bc2.linked} :
         bc2' = [bc2 EXCEPT !.pc = bc2.back,
                            !.res = IF ok THEN "ok" ELSE "WriteError"]
    /\ UNCHANGED <<bc2_rest_vars, n_writes, n_notifs>>

\* BleakConnection2.disconnect(): sets _abort, then is_alive() runs
\* self._client.is_connected() (AttributeError on None).  Called once.
BleakConnection2_disconnect ==
    /\ Bc2AtRest
    /\ ~bc2.abort
    /\ bc2' = IF bc2.device = NoDevice
              THEN [bc2 EXCEPT !.abort = TRUE, !.res = "AttributeError"]
              ELSE [bc2 EXCEPT !.abort = TRUE, !.pc = "is_alive",
                               !.back = bc2.pc, !.res = "none",
                               !.log = Append(@, Call("is_connected", None,
                                                      "caller"))]
    /\ UNCHANGED <<bc2_rest_vars, n_writes, n_notifs>>

\* is_connected() returns:  if self.is_alive(): run self._client.disconnect()
BleakConnection2_is_alive_returns ==
    /\ bc2.pc = "is_alive"
    /\ bc2' = IF bc2.linked
              THEN [bc2 EXCEPT !.pc = "disconnect",
                               !.log = Append(@, Call("disconnect", None,
                                                      "caller"))]
              ELSE [bc2 EXCEPT !.pc = bc2.back, !.res = "ok"]
    /\ UNCHANGED <<bc2_rest_vars, n_writes, n_notifs>>

\* self._client.disconnect() returns, the link being closed, or raises to
\* the caller.
BleakConnection2_disconnect_returns ==
    /\ bc2.pc = "disconnect"
    /\ \E ok \in BOOLEAN :
         bc2' = [bc2 EXCEPT !.pc = bc2.back,
                            !.linked = IF ok THEN FALSE ELSE @,
                            !.res = IF ok THEN "ok" ELSE "DisconnectError"]
    /\ UNCHANGED <<bc2_rest_vars, n_writes, n_notifs>>

\* BleakConnection2.set_notify_handler(handler): starts a thread running
\* _processing.  One such thread is modelled.
BleakConnection2_set_notify_handler ==
    /\ Bc2AtRest
    /\ bc2.thread = "none"
    /\ bc2' = [bc2 EXCEPT !.thread = "loop"]
    /\ UNCHANGED <<bc2_rest_vars, n_writes, n_notifs>>

\* The callback enqueue of connect: a notification is put into
\* self._notify_queue.  Callbacks run in self._loop, which runs only inside
\* a run_until_complete; they exist once start_notify has returned.
BleakConnection2_enqueue ==
    /\ bc2.pc \in {"write", "is_alive", "disconnect"}
    /\ bc2.back = "connected"
    /\ bc2.linked
    /\ n_notifs < MaxNotifs
    /\ bc2' = [bc2 EXCEPT !.notify_queue =
                 Append(@, <<MOVE_HUB_HW_UUID_CHAR, <<n_notifs + 1>> >>)]
    /\ n_notifs' = n_notifs + 1
    /\ UNCHANGED <<bc2_rest_vars, n_writes>>

\* _processing:  while not self._abort:
BleakConnection2_processing_loop_test ==
    /\ bc2.thread = "loop"
    /\ bc2' = [bc2 EXCEPT !.thread = IF bc2.abort THEN "done" ELSE "get"]
    /\ UNCHANGED <<bc2_rest_vars, n_writes, n_notifs>>

\* handle, data = self._notify_queue.get(block=True) returns (it blocks
\* while the queue is empty); handler(handle, data) is called.
BleakConnection2_processing_get ==
    /\ bc2.thread = "get"
    /\ bc2.notify_queue # <<>>
    /\ bc2' = [bc2 EXCEPT !.thread = "handler",
                          !.notify_queue = Tail(@),
                          !.handled = Append(@, Head(bc2.notify_queue))]
    /\ UNCHANGED <<bc2_rest_vars, n_writes, n_notifs>>

\* The handler returns.
BleakConnection2_processing_handler_returns ==
    /\ bc2.thread = "handler"
    /\ bc2' = [bc2 EXCEPT !.thread = "loop"]
    /\ UNCHANGED <<bc2_rest_vars, n_writes, n_notifs>>

\* The steps of the thread of set_notify_handler.
BleakConnection2_processing ==
    \/ BleakConnection2_processing_loop_test
    \/ BleakConnection2_processing_get
    \/ BleakConnection2_processing_handler_returns

\* The returns of the library calls BleakConnection2 runs to completion.
BleakConnection2_returns ==
    \/ BleakConnection2_connect_discovered
    \/ BleakConnection2_connect_returns
    \/ BleakConnection2_subscribe_returns
    \/ BleakConnection2_write_returns
    \/ BleakConnection2_is_alive_returns
    \/ BleakConnection2_disconnect_returns

(***************************************************************************)
(* The specification of connecting: a program that connects once, either   *)
(* through a BleakDriver (whose connection unit runs                       *)
(* BleakConnection.connect) or through a BleakConnection2, to the target   *)
(* it was given (any of Targets), among any scans.                         *)
(***************************************************************************)
InitConnect ==
    /\ DriverInit
    /\ \E tg \in Targets :
         /\ hub_mac  = [d \in AllDrivers |-> IF d = "A" THEN tg[1] ELSE None]
         /\ hub_name = [d \in AllDrivers |-> IF d = "A" THEN tg[2] ELSE None]
    /\ scans = Scans
    /\ bc2 = Bc2Idle

NextConnect ==
    \/ bc2.pc = "idle" /\ Started = {} /\ enable_notifications("A")
    \/ \E t \in Units : bleak_connect_discovered(t)
    \/ \E t \in Units : bleak_connect_returns(t)
    \/ \E t \in Units : bleak_subscribe_returns(t)
    \/ Started = {} /\ BleakConnection2_connect(hub_mac["A"], hub_name["A"])
    \/ BleakConnection2_connect_discovered
    \/ BleakConnection2_connect_returns
    \/ BleakConnection2_subscribe_returns

SpecConnect == InitConnect /\ [][NextConnect]_vars

(***************************************************************************)
(* The specification of one bridge: a program that uses either one         *)
(* BleakDriver on which enable_notifications is called once, or one        *)
(* BleakConnection2, through its whole life, around a hub whose link can   *)
(* be lost.                                                                *)
(***************************************************************************)
DriverUntouched ==
    /\ Started = {}
    /\ handler["A"] = None
    /\ ~abort["A"]
    /\ write_res["A"] = "none"

ApiOnce(d) ==
    \/ set_notify_handler(d)
    \/ Started = {} /\ enable_notifications(d)
    \/ \E handle \in Handles : write(d, handle)
    \/ disconnect(d)

BleakConnection2_api ==
    \/ BleakConnection2_connect(hub_mac["A"], hub_name["A"])
    \/ \E handle \in Handles : BleakConnection2_write(handle)
    \/ BleakConnection2_disconnect
    \/ BleakConnection2_set_notify_handler

NextBridge ==
    \/ bc2 = Bc2Idle /\ ApiOnce("A")
    \/ \E t \in Units : ConnectionUnit(t)
    \/ \E t \in Units : link_lost(t)
    \/ \E t \in Units : DispatchUnit(t)
    \/ DriverUntouched /\ BleakConnection2_api
    \/ BleakConnection2_returns
    \/ BleakConnection2_enqueue
    \/ BleakConnection2_processing

SpecBridge == Init /\ [][NextBridge]_vars

\* Scheduling: as Fairness, and for the BleakConnection2 its thread takes
\* the steps it can take and the library calls it waits for return or raise.
FairnessBridge ==
    /\ \A t \in Units : WF_vars(bleak_thread(t)) /\ WF_vars(DispatchUnit(t))
    /\ WF_vars(BleakConnection2_processing)
    /\ WF_vars(BleakConnection2_returns)

FairSpecBridge == Init /\ [][NextBridge]_vars /\ FairnessBridge

(***************************************************************************)
(* The specification of two drivers in one process: BleakDriver "A" and    *)
(* BleakDriver "B", each used as its API asks: set_notify_handler first,   *)
(* then enable_notifications once, then writes; neither is disconnected.   *)
(* A writes to handle 14 only and B to handle 15 only, so that the         *)
(* characteristic a write arrives on tells whose write call enqueued it.   *)
(***************************************************************************)
HandleOf(d) == IF d = "A" THEN 14 ELSE 15

ApiTwo(d) ==
    \/ handler[d] = None /\ set_notify_handler(d)
    \/ handler[d] # None /\ connection_thread[d] = 0 /\ enable_notifications(d)
    \/ connection_thread[d] # 0 /\ write(d, HandleOf(d))

NextTwo ==
    \/ \E d \in AllDrivers : ApiTwo(d)
    \/ \E t \in Units : ConnectionUnit(t)
    \/ \E t \in Units : DispatchUnit(t)

SpecTwo == Init /\ [][NextTwo]_vars

(***************************************************************************)
(* What the claims speak of.                                               *)
(***************************************************************************)
UnitsOf(d) == {t \in Units : conn[t].owner = d}

IsWrite(c) == c.op = "write_gatt_char"

\* The payloads of the caller writes unit t's transport has been handed, in
\* order: its write_gatt_char calls after the keep-alive, which is the first.
DrainedWrites(t) ==
    LET w == SelectSeq(transport[t].log, IsWrite)
    IN  IF w = <<>> THEN <<>> ELSE [i \in 1..(Len(w) - 1) |-> w[i + 1].arg[2]]

\* s is a prefix of <<1>>, <<2>>, ...: the order of enqueueing/delivery.
InIssueOrder(s) == \A i \in 1..Len(s) : s[i] = <<i>>

\* C1: the caller writes a transport is handed by the drain loop are, at
\* every moment, a prefix of the enqueue sequence of the request queue: the
\* n-th write it sees is the n-th pair enqueued (no reordering, duplication
\* or skipping).
C1_WritesInEnqueueOrder ==
    \A t \in Units : InIssueOrder(DrainedWrites(t))

\* C2: while disconnect has not been called and the handler is registered
\* (no dispatch unit died calling None), the handler has been invoked with
\* the notifications in the order the callbacks received them: its n-th
\* invocation is the n-th notification.
C2_HandlerSeesNotificationsInOrder ==
    \A d \in AllDrivers :
        (/\ ~abort[d]
         /\ \A t \in Units : proc[t].pc # "dead")
        => InIssueOrder([i \in 1..Len(hlog[d]) |-> hlog[d][i].msg[2]])

\* Both units of every enable_notifications() call on d have stopped.
AllStopped(d) ==
    \A t \in UnitsOf(d) : ~ThreadAlive(conn[t]) /\ ~ThreadAlive(proc[t])

\* The states in which C3 says write must fail: enable_notifications was
\* never called, or disconnect was called and both units have stopped.
NotRunning(d) ==
    \/ connection_thread[d] = 0
    \/ abort[d] /\ AllStopped(d)

\* C3: a write call made before enable_notifications, or after disconnect
\* once the units have stopped, ends with ConnectionError and leaves the
\* request queue as it was.
C3_WriteWhenNotRunningRaisesConnectionError ==
    [][\A d \in AllDrivers : \A handle \in Handles :
          (NotRunning(d) /\ write(d, handle))
          => (write_res'[d] = "ConnectionError" /\ req_queue' = req_queue)]_vars

\* C4: once disconnect has set the flag, both units of the driver leave
\* their loops, whatever they were doing: eventually no thread of the driver
\* is alive (none stays blocked) and is_alive() returns false.
C4_DisconnectStopsBothUnits ==
    \A d \in {"A"} : abort[d] ~> (AllStopped(d) /\ ~is_alive(d))

\* C5: whatever enable_notifications calls were made on a driver, it has at
\* most one live connection unit, at most one live transport client and at
\* most one live dispatch unit.
C5_NoDuplicateUnits ==
    \A d \in AllDrivers :
        /\ Cardinality({t \in UnitsOf(d) : ThreadAlive(conn[t])}) <= 1
        /\ Cardinality({t \in UnitsOf(d) : ThreadAlive(conn[t])
                                           /\ conn[t].device # NoDevice}) <= 1
        /\ Cardinality({t \in UnitsOf(d) : ThreadAlive(proc[t])}) <= 1

\* C6: a transport write that fails in the drain loop does not terminate
\* the connection unit: no unit is ended by the exception of a caller write.
C6_FailedWriteKeepsUnitAlive ==
    \A t \in Units : conn[t].err # "WriteError"

\* C7: every call of the BLE library in a transport's history was made by a
\* connection unit (none by a public call on a caller thread or by a
\* dispatch unit), and a transport never has more than one write in flight.
C7_TransportOwnedByConnectionUnit ==
    \A t \in Units :
        /\ transport[t].inflight <= 1
        /\ \A i \in 1..Len(transport[t].log) : transport[t].log[i].by = "conn"

\* C7's case: a caller write is in flight on a transport while another
\* accepted write waits in the request queue.
C7_Witness ==
    \E t \in Units :
        /\ conn[t].pc = "write"
        /\ transport[t].inflight = 1
        /\ req_queue # <<>>
        /\ write_res[conn[t].owner] = "ok"

\* C8: every handler invocation was made by a dispatch unit (the
\* subscription callback only enqueues), and a driver's handler never has
\* two invocations in progress at the same time.
C8_HandlerOnlyFromDispatchNeverConcurrent ==
    \A d \in AllDrivers :
        /\ \A i \in 1..Len(hlog[d]) : hlog[d][i].by = "dispatch"
        /\ Cardinality({t \in Units : /\ proc[t].pc = "handler"
                                      /\ handler[proc[t].owner] = <<d>>}) <= 1

(***************************************************************************)
(* Connecting.                                                             *)
(***************************************************************************)
Matched(dev, mac, name) == is_device_matched(dev.address, dev.name, mac, name)

\* dev stands in devices where no device before it matches, and it matches.
IsFirstMatch(dev, devices, mac, name) ==
    \E k \in 1..Len(devices) :
        /\ devices[k] = dev
        /\ Matched(devices[k], mac, name)
        /\ \A j \in 1..(k - 1) : ~Matched(devices[j], mac, name)

IsConnect(c) == c.op = "connect"
IsDiscover(c) == c.op = "discover"

\* The addresses the transport's connect was called with, in order.
ConnectArgs(log) ==
    LET c == SelectSeq(log, IsConnect) IN [i \in 1..Len(c) |-> c[i].arg]

ScansMade(log) == Len(SelectSeq(log, IsDiscover))

\* connect, having selected dev from the scan devices, called the
\* transport's connect once, with the address of the first match.
SelectedFirstMatch(dev, devices, mac, name, log) ==
    /\ IsFirstMatch(dev, devices, mac, name)
    /\ ConnectArgs(log) = <<dev.address>>

\* C9: whenever a connect has selected a device from a scan (a connection
\* unit's BleakConnection.connect, or BleakConnection2.connect), it is the
\* first device of the scan, in scan order, that the matcher accepts, and
\* the transport's connect has been called with that device's address and
\* no other; without a selection the transport's connect is not called.
C9_ConnectSelectsFirstMatch ==
    /\ \A t \in Units :
         /\ conn[t].pc = "connect"
            => SelectedFirstMatch(conn[t].device, conn[t].devices,
                                  hub_mac[conn[t].owner],
                                  hub_name[conn[t].owner], transport[t].log)
         /\ ConnectArgs(transport[t].log) =
              IF conn[t].device = NoDevice THEN <<>>
              ELSE <<conn[t].device.address>>
    /\ IF bc2.device = NoDevice
       THEN ConnectArgs(bc2.log) = <<>>
       ELSE SelectedFirstMatch(bc2.device, bc2.devices, bc2.hub_mac,
                               bc2.hub_name, bc2.log)

\* C9's case: a connection unit selected a device from a scan in which a
\* later device, with another address, matches too.
C9_Witness ==
    \E t \in Units :
        /\ conn[t].pc = "connect"
        /\ \E j \in 1..Len(conn[t].devices) :
             /\ Matched(conn[t].devices[j], hub_mac[conn[t].owner],
                        hub_name[conn[t].owner])
             /\ conn[t].devices[j].address # conn[t].device.address

\* What C10 says of a connect once it has a device: it stopped at the first
\* scan holding a match, within MaxAttempts scans, and called the
\* transport's connect exactly once, with the matched address.
StoppedAtFirstMatchingScan(dev, devices, mac, name, log, passed) ==
    /\ ~passed
    /\ ScansMade(log) <= MaxAttempts
    /\ SelectedFirstMatch(dev, devices, mac, name, log)

\* C10 as stated, for both connects: a scan without a match is followed by
\* another scan (a connect gives up only after more than one scan, so that
\* a device seen by scan 2 but not by scan 1 is connected to), and scanning
\* stops at the first scan with a match, connect being called once.
C10_BothConnectsRepeatScans ==
    /\ \A t \in Units :
         /\ conn[t].err = "DeviceNotFound" => ScansMade(transport[t].log) >= 2
         /\ conn[t].pc = "connect"
            => StoppedAtFirstMatchingScan(conn[t].device, conn[t].devices,
                   hub_mac[conn[t].owner], hub_name[conn[t].owner],
                   transport[t].log, FALSE)
    /\ bc2.err = "DeviceNotFound" => ScansMade(bc2.log) >= 2
    /\ bc2.device # NoDevice
       => StoppedAtFirstMatchingScan(bc2.device, bc2.devices, bc2.hub_mac,
              bc2.hub_name, bc2.log, bc2.passed_match)

\* C10 amended: BleakConnection2.connect scans until a scan holds a match
\* and gives up only after MaxAttempts scans without one; on a match it
\* stops scanning and calls the transport's connect once, with the matched
\* address.  BleakConnection.connect, which the connection unit runs, makes
\* exactly one scan: without a match in it, it raises 'Device not found'
\* and calls nothing more; with one, it calls connect once, with the
\* matched address.
C10_OnlyBleakConnection2RepeatsScans ==
    /\ \A t \in Units :
         /\ conn[t].pc # "none" => ScansMade(transport[t].log) = 1
         /\ conn[t].err = "DeviceNotFound"
            => /\ \A j \in 1..Len(conn[t].devices) :
                    ~Matched(conn[t].devices[j], hub_mac[conn[t].owner],
                             hub_name[conn[t].owner])
               /\ Len(transport[t].log) = 1
         /\ conn[t].pc = "connect"
            => StoppedAtFirstMatchingScan(conn[t].device, conn[t].devices,
                   hub_mac[conn[t].owner], hub_name[conn[t].owner],
                   transport[t].log, FALSE)
    /\ bc2.pc # "idle" => ScansMade(bc2.log) = bc2.i + 1
    /\ bc2.err = "DeviceNotFound"
       => /\ ScansMade(bc2.log) = MaxAttempts
          /\ Len(bc2.log) = MaxAttempts
    /\ ~bc2.passed_match
    /\ bc2.device # NoDevice
       => StoppedAtFirstMatchingScan(bc2.device, bc2.devices, bc2.hub_mac,
              bc2.hub_name, bc2.log, bc2.passed_match)

\* C10's case: BleakConnection2.connect returned connected on its second
\* scan, the first having held no match.
C10_Witness ==
    /\ bc2.pc = "connected"
    /\ ScansMade(bc2.log) = 2
    /\ ConnectArgs(bc2.log) = <<bc2.device.address>>

\* No device of the scan matches the target.
NoMatchIn(devices, mac, name) ==
    \A j \in 1..Len(devices) : ~Matched(devices[j], mac, name)

\* The library was only asked to scan: no client was created, connected,
\* subscribed or written to.
OnlyDiscovers(log) == \A i \in 1..Len(log) : log[i].op = "discover"

\* C11: a connect whose scans all lack a match (one scan for
\* BleakConnection.connect, MaxAttempts scans for BleakConnection2.connect)
\* ends with 'Device not found', and only then; on that path no client
\* exists and the library was only asked to scan.  A connect that got past
\* scanning without that error has a client for a device that matched.
C11_NoMatchRaisesDeviceNotFound ==
    /\ \A t \in Units :
         LET mac  == hub_mac[conn[t].owner]
             name == hub_name[conn[t].owner]
         IN  /\ conn[t].err = "DeviceNotFound"
                => /\ conn[t].pc = "dead"
                   /\ NoMatchIn(conn[t].devices, mac, name)
                   /\ conn[t].device = NoDevice
             /\ conn[t].device = NoDevice => OnlyDiscovers(transport[t].log)
             /\ conn[t].pc = "connect"
                => ~NoMatchIn(conn[t].devices, mac, name)
             /\ conn[t].pc \notin {"none", "discover"}
                => (conn[t].device # NoDevice \/ conn[t].err = "DeviceNotFound")
    /\ bc2.err = "DeviceNotFound"
       => /\ bc2.pc = "error"
          /\ NoMatchIn(bc2.devices, bc2.hub_mac, bc2.hub_name)
          /\ ~bc2.passed_match
          /\ ScansMade(bc2.log) = MaxAttempts
          /\ bc2.device = NoDevice
    /\ bc2.device = NoDevice => OnlyDiscovers(bc2.log)
    /\ bc2.pc = "connect"
       => ~NoMatchIn(bc2.devices, bc2.hub_mac, bc2.hub_name)
    /\ bc2.pc \notin {"idle", "discover"}
       => (bc2.device # NoDevice \/ bc2.err = "DeviceNotFound")

\* C11's case: BleakConnection2.connect gave up after its last scan, which
\* reported devices, none of them a match.
C11_Witness ==
    /\ bc2.err = "DeviceNotFound"
    /\ bc2.devices # <<>>
    /\ bc2.i = MaxAttempts - 1

\* The library's connect was called for a matched device and failed: it
\* raised, or it returned reporting that the client is not connected (in
\* SpecConnect a link that is up stays up).
ConnectFailed(log, pc, linked) ==
    /\ ConnectArgs(log) # <<>>
    /\ pc # "connect"
    /\ ~linked

IsStartNotify(c) == c.op = "start_notify"

\* C12: when the transport's connect fails after a match, by raising or by
\* reporting failure, connect fails with the connection error, and no
\* subscription and no write is issued on that connection.
C12_FailedConnectNeverSubscribes ==
    /\ \A t \in Units :
         ConnectFailed(transport[t].log, conn[t].pc, transport[t].linked)
         => /\ conn[t].err = "ConnectError"
            /\ SelectSeq(transport[t].log, IsStartNotify) = <<>>
            /\ SelectSeq(transport[t].log, IsWrite) = <<>>
    /\ ConnectFailed(bc2.log, bc2.pc, bc2.linked)
       => /\ bc2.err = "ConnectError"
          /\ SelectSeq(bc2.log, IsStartNotify) = <<>>
          /\ SelectSeq(bc2.log, IsWrite) = <<>>

(***************************************************************************)
(* Writing.                                                                *)
(***************************************************************************)
\* log2 is log followed by exactly one call: a write_gatt_char of data to
\* the characteristic of the descriptor registered for handle, or to
\* MOVE_HUB_HW_UUID_CHAR when there is none (a characteristic uuid in both
\* cases, never the handle itself).
OneResolvedWrite(log, log2, handle, data) ==
    /\ Len(log2) = Len(log) + 1
    /\ SubSeq(log2, 1, Len(log)) = log
    /\ LET c    == log2[Len(log2)]
           desc == get_descriptor(handle)
       IN  /\ c.op = "write_gatt_char"
           /\ c.arg[2] = data
           /\ desc # None => c.arg[1] = desc[1]
           /\ desc = None => c.arg[1] = MOVE_HUB_HW_UUID_CHAR

\* C13: every call of a bridge's write (BleakConnection.write, made by the
\* drain loop with a dequeued pair, and BleakConnection2.write on a client)
\* hands the transport exactly one write, carrying the payload, on the
\* characteristic of the handle's descriptor if it has one and on the
\* default characteristic if not; its return adds no further call.
C13_WriteResolvesHandle ==
    [][/\ \A t \in Units :
            /\ bleak_get_and_write(t)
               => OneResolvedWrite(transport[t].log, transport'[t].log,
                                   Head(req_queue)[1], Head(req_queue)[2])
            /\ bleak_write_returns(t)
               => transport'[t].log = transport[t].log
       /\ \A handle \in Handles :
            (BleakConnection2_write(handle) /\ bc2.device # NoDevice)
            => OneResolvedWrite(bc2.log, bc2'.log, handle, <<n_writes + 1>>)
       /\ BleakConnection2_write_returns => bc2'.log = bc2.log]_vars

\* C13's case: a transport was handed two caller writes, one for a handle
\* without a descriptor and one for a handle with one.
C13_Witness ==
    \E t \in Units :
        LET w == SelectSeq(transport[t].log, IsWrite)
        IN  /\ Len(w) >= 3
            /\ \E i, j \in 2..Len(w) :
                 /\ w[i].arg[1] = MOVE_HUB_HW_UUID_CHAR
                 /\ w[j].arg[1] = get_descriptor(15)[1]

(***************************************************************************)
(* Shutdown and failure.                                                   *)
(***************************************************************************)
IsDisconnect(c) == c.op = "disconnect"

\* C14: a disconnect() made on a connected bridge has the transport asked
\* to close the link, and a transport disconnect that fails does not raise
\* to the caller: a connection unit that has left its loop after
\* disconnect(), its link still up, has called the client's disconnect, and
\* no BleakConnection2.disconnect() call ended with the transport's error.
C14_DisconnectClosesLink ==
    /\ \A t \in Units :
         (conn[t].pc = "done" /\ abort[conn[t].owner] /\ transport[t].linked)
         => SelectSeq(transport[t].log, IsDisconnect) # <<>>
    /\ bc2.res # "DisconnectError"

\* The link of a unit of driver d was lost after it had connected and
\* subscribed; from then on every call on its client fails.
LinkLostAfterConnection(d) ==
    \E t \in UnitsOf(d) : transport[t].subscribed /\ ~transport[t].linked

\* C15: once the link of a connected driver is lost for good, is_alive()
\* eventually returns false, whether or not a caller write is pending.
C15_LostLinkTurnsIsAliveFalse ==
    \A d \in {"A"} : LinkLostAfterConnection(d) ~> ~is_alive(d)

\* The positions of a connection unit before its drain loop.
Connecting == {"discover", "connect", "subscribe", "keepalive"}

\* Every caller write in unit t's history was issued after the client's
\* connect had been called and returned, the subscription had been made and
\* had returned, and the keep-alive had been sent.
WrittenOnlyWhenConnected(t) ==
    LET log == transport[t].log
    IN  \A i \in 1..Len(log) :
          (IsWrite(log[i]) /\ log[i].arg[2] # KeepAliveData)
          => /\ transport[t].subscribed
             /\ conn[t].pc \notin Connecting
             /\ \E j, k, l \in 1..(i - 1) :
                  /\ j < k /\ k < l
                  /\ log[j].op = "connect"
                  /\ log[k].op = "start_notify"
                  /\ IsWrite(log[l]) /\ log[l].arg[2] = KeepAliveData

\* s is a prefix of q.
IsPrefix(s, q) == Len(s) <= Len(q) /\ SubSeq(q, 1, Len(s)) = s

\* C16: a caller write reaches a transport only while its connection is
\* Connected.  No step takes a pair from the request queue while every
\* started connection unit is still discovering, connecting, subscribing or
\* sending its keep-alive; every caller write a transport has been handed
\* came after its connect, its subscription and its keep-alive; and a
\* connection unit that has seen the shutdown flag (or has ended on an
\* exception) hands its transport nothing more.
C16_WritesOnlyWhileConnected ==
    [][/\ (\A t \in Started : conn[t].pc \in Connecting)
          => IsPrefix(req_queue, req_queue')
       /\ \A t \in Units :
            /\ WrittenOnlyWhenConnected(t)'
            /\ conn[t].pc \in {"done", "dead"}
               => transport'[t].log = transport[t].log]_vars

\* C16's case: a write was accepted and waits in the request queue while
\* the connection unit is still discovering or connecting.
C16_Witness ==
    \E t \in Units :
        /\ conn[t].pc \in {"discover", "connect"}
        /\ req_queue # <<>>
        /\ write_res[conn[t].owner] = "ok"

\* C17: once disconnect() has been called on a driver, no public call on it
\* makes the library be called again: no call made after disconnect(),
\* enable_notifications included, starts a discovery (or anything after it).
C17_ClosedIsTerminal ==
    [][\A d \in AllDrivers :
          (abort[d] /\ Api(d))
          => \A t \in Units : transport'[t].log = transport[t].log]_vars

\* C18: after disconnect() has set the flag, the dispatch loop ends, even
\* if no notification ever arrives: the driver's _processing threads are
\* eventually not alive, and so is the _processing thread of a
\* BleakConnection2.
C18_ShutdownReleasesDispatch ==
    /\ \A d \in {"A"} :
         abort[d] ~> (\A t \in UnitsOf(d) : ~ThreadAlive(proc[t]))
    /\ bc2.abort ~> (bc2.thread \in {"none", "done"})

(***************************************************************************)
(* Two drivers.                                                            *)
(***************************************************************************)
\* C19: two drivers in one process do not interfere.  Every caller write
\* the transport of a driver's unit was handed is on the characteristic of
\* the handle that driver writes to (so a write call on that driver
\* enqueued it); a driver's handler has been invoked only if a transport of
\* that driver has subscribed (what it was given, its own transport
\* emitted); and no connection unit is blocked in req_queue.get() on an
\* empty queue, the pair it saw taken by the other driver's unit.
C19_DriversDoNotInterfere ==
    /\ \A t \in Started :
         LET w == SelectSeq(transport[t].log, IsWrite)
         IN  \A i \in 2..Len(w) :
               w[i].arg[1] = WriteCharacteristic(HandleOf(conn[t].owner))
    /\ \A d \in AllDrivers :
         hlog[d] # <<>> => \E t \in UnitsOf(d) : transport[t].subscribed
    /\ \A t \in Units : ~(conn[t].pc = "get" /\ req_queue = <<>>)

(***************************************************************************)
(* The keep-alive.                                                         *)
(***************************************************************************)
\* The positions of a connection unit whose connect and subscription have
\* succeeded.
Subscribed == {"keepalive", "loop", "sleep", "get", "write", "done"}

\* C20: a connection unit that has connected and subscribed has written,
\* and the first write any transport of the driver was handed is the
\* keep-alive (05 00 01 01 05 on MOVE_HUB_HW_UUID_CHAR), issued right after
\* the subscription; the writes that follow it are the callers'.
C20_KeepAliveIsFirstWrite ==
    \A t \in Units :
        LET log == transport[t].log
        IN  /\ conn[t].pc \in Subscribed
               => SelectSeq(log, IsWrite) # <<>>
            /\ \A i \in 1..Len(log) :
                 (IsWrite(log[i]) /\ \A j \in 1..(i - 1) : ~IsWrite(log[j]))
                 => /\ log[i].arg = <<MOVE_HUB_HW_UUID_CHAR, KeepAliveData>>
                    /\ i > 1
                    /\ log[i - 1].op = "start_notify"
                    /\ transport[t].subscribed
            /\ \A i \in 1..Len(DrainedWrites(t)) :
                 DrainedWrites(t)[i] # KeepAliveData

\* C20's case: the keep-alive is in flight, the only write so far, while a
\* caller write accepted before the connection was up waits in the queue.
C20_Witness ==
    \E t \in Units :
        /\ conn[t].pc = "keepalive"
        /\ req_queue # <<>>
        /\ Len(SelectSeq(transport[t].log, IsWrite)) = 1

=============================================================================
